---- MODULE Spec2Model ----
(***************************************************************************)
(* Model of temperature_reader.py: the last-line parser                    *)
(* (read_latest_temperature), the refresh cycle (update_temperature,       *)
(* schedule_update), file selection and the two style setters.             *)
(*                                                                         *)
(* Text is a sequence of one-character strings.  A number is kept as an    *)
(* exact decimal [neg, digits, scale] = (-1)^neg * digits / 10^scale.      *)
(*                                                                         *)
(* A handler is one step, except that update_temperature stops where       *)
(* messagebox.showerror blocks: the box runs the event loop, so timers     *)
(* that come due are dispatched while it is open, and it holds the grab,   *)
(* so the menu is out of reach until it is closed.  The answers of the     *)
(* file, font and colour dialogs are inputs of their handlers.             *)
(***************************************************************************)
EXTENDS Integers, Sequences, FiniteSets, TLC

VARIABLES
    file_path,      \* self.file_path (tk.StringVar): "" until a file is selected
    label_text,     \* text of self.temperature_label
    font_size,      \* self.font_size
    bg_color,       \* self.bg_color
    label_bg,       \* bg option of the label widget
    root_bg,        \* bg option of the root window
    pending,        \* number of root.after callbacks scheduled and not yet fired
    stack,          \* update_temperature invocations blocked in messagebox.showerror
    fs,             \* the file system: path -> file
    label_src,      \* history: the path read by the refresh that last wrote the label
    ev,             \* history: the handler step taken last
    ticks,          \* history: parity of the number of timer callbacks run so far
    arg,            \* parser harness: the file handed to read_latest_temperature
    ret             \* parser harness: what it returned

vars == <<file_path, label_text, font_size, bg_color, label_bg, root_bg, pending,
          stack, fs, label_src, ev, ticks, arg, ret>>

gui_vars == <<file_path, label_text, font_size, bg_color, label_bg, root_bg, pending,
              stack, fs, label_src, ev, ticks>>

----------------------------------------------------------------------------
(* Bounds *)

MaxLen == 5         \* longest generated file, in characters
MaxTimers == 2      \* a menu command that arms a timer waits while this many are scheduled
MaxDepth == 2       \* most error boxes open at once

----------------------------------------------------------------------------
(* Text helpers *)

Whitespace == {" ", "\n", "\t", "\r"}

DigitChars == {"0", "1", "2", "3", "4", "5", "6", "7", "8", "9"}

DigitVal(c) ==
    CASE c = "0" -> 0 [] c = "1" -> 1 [] c = "2" -> 2 [] c = "3" -> 3
      [] c = "4" -> 4 [] c = "5" -> 5 [] c = "6" -> 6 [] c = "7" -> 7
      [] c = "8" -> 8 [] c = "9" -> 9

DigitChar(d) ==
    CASE d = 0 -> "0" [] d = 1 -> "1" [] d = 2 -> "2" [] d = 3 -> "3"
      [] d = 4 -> "4" [] d = 5 -> "5" [] d = 6 -> "6" [] d = 7 -> "7"
      [] d = 8 -> "8" [] d = 9 -> "9"

RECURSIVE Pow10(_)
Pow10(n) == IF n = 0 THEN 1 ELSE 10 * Pow10(n - 1)

\* index of the first occurrence of c in s, 0 when there is none
IndexOf(s, c) ==
    IF \E i \in 1..Len(s) : s[i] = c
    THEN CHOOSE i \in 1..Len(s) : s[i] = c /\ \A j \in 1..(i - 1) : s[j] # c
    ELSE 0

\* f.readlines(): every line keeps its terminating newline, the last may have none
RECURSIVE readlines(_)
readlines(s) ==
    IF s = <<>> THEN <<>>
    ELSE LET i == IndexOf(s, "\n")
         IN  IF i = 0 THEN <<s>>
             ELSE <<SubSeq(s, 1, i)>> \o readlines(SubSeq(s, i + 1, Len(s)))

\* str.strip(): drop leading and trailing whitespace
strip(s) ==
    IF \A i \in 1..Len(s) : s[i] \in Whitespace THEN <<>>
    ELSE LET lo == CHOOSE i \in 1..Len(s) :
                       s[i] \notin Whitespace /\ \A j \in 1..(i - 1) : s[j] \in Whitespace
             hi == CHOOSE i \in 1..Len(s) :
                       s[i] \notin Whitespace /\ \A j \in (i + 1)..Len(s) : s[j] \in Whitespace
         IN  SubSeq(s, lo, hi)

\* str.split(sep): the fields between separators; the empty text gives one empty field
RECURSIVE split(_, _)
split(s, sep) ==
    LET i == IndexOf(s, sep)
    IN  IF i = 0 THEN <<s>>
        ELSE <<SubSeq(s, 1, i - 1)>> \o split(SubSeq(s, i + 1, Len(s)), sep)

RECURSIVE DigitsValue(_)
DigitsValue(s) ==
    IF s = <<>> THEN 0
    ELSE 10 * DigitsValue(SubSeq(s, 1, Len(s) - 1)) + DigitVal(s[Len(s)])

RECURSIVE NatText(_)
NatText(n) ==
    IF n < 10 THEN <<DigitChar(n)>> ELSE NatText(n \div 10) \o <<DigitChar(n % 10)>>

----------------------------------------------------------------------------
(* Numbers *)

None == [isnone |-> TRUE, neg |-> FALSE, digits |-> 0, scale |-> 0]

RECURSIVE Normal(_, _, _)
Normal(neg, digits, scale) ==
    IF scale > 0 /\ digits % 10 = 0 THEN Normal(neg, digits \div 10, scale - 1)
    ELSE [isnone |-> FALSE, neg |-> neg, digits |-> digits, scale |-> scale]

\* float that yields 0.0 where the text is no number
float_lenient(text) ==
    LET t    == strip(text)
        sgn  == t # <<>> /\ t[1] \in {"+", "-"}
        body == IF sgn THEN SubSeq(t, 2, Len(t)) ELSE t
        p    == IndexOf(body, ".")
        ip   == IF p = 0 THEN body ELSE SubSeq(body, 1, p - 1)
        fp   == IF p = 0 THEN <<>> ELSE SubSeq(body, p + 1, Len(body))
        ok   == /\ \A i \in 1..Len(ip) : ip[i] \in DigitChars
                /\ \A i \in 1..Len(fp) : fp[i] \in DigitChars
                /\ Len(ip) + Len(fp) > 0
    IN  IF ok THEN Normal(sgn /\ t[1] = "-", DigitsValue(ip \o fp), Len(fp))
        ELSE Normal(FALSE, 0, 0)

\* float(text): surrounding whitespace is dropped, then an optional sign, then
\* digits with at most one point and at least one digit; anything else raises
\* ValueError, which is None here.  (Exponents, underscores, inf and nan need
\* characters outside the alphabets used.)
float(text) ==
    LET t    == strip(text)
        sgn  == t # <<>> /\ t[1] \in {"+", "-"}
        body == IF sgn THEN SubSeq(t, 2, Len(t)) ELSE t
        p    == IndexOf(body, ".")
        ip   == IF p = 0 THEN body ELSE SubSeq(body, 1, p - 1)
        fp   == IF p = 0 THEN <<>> ELSE SubSeq(body, p + 1, Len(body))
        ok   == /\ \A i \in 1..Len(ip) : ip[i] \in DigitChars
                /\ \A i \in 1..Len(fp) : fp[i] \in DigitChars
                /\ Len(ip) + Len(fp) > 0
    IN  IF ok THEN Normal(sgn /\ t[1] = "-", DigitsValue(ip \o fp), Len(fp))
        ELSE None

\* f"{v:.1f}": one digit after the point
Format1f(v) ==
    LET unit == IF v.scale > 1 THEN Pow10(v.scale - 1) ELSE 1
        q    == IF v.scale > 1 THEN v.digits \div unit
                ELSE v.digits * Pow10(1 - v.scale)
        r    == IF v.scale > 1 THEN v.digits % unit ELSE 0
        h    == IF 2 * r > unit \/ (2 * r = unit /\ q % 2 = 1) THEN q + 1 ELSE q
    IN  (IF v.neg THEN <<"-">> ELSE <<>>)
        \o NatText(h \div 10)
        \o <<".", DigitChar(h % 10)>>

\* f"{v:.2f}": round to hundredths (a tie goes to the even neighbour, which is
\* what the format does for a tie a double holds exactly), two digits after
\* the point, the sign kept even when the rounded magnitude is zero.
Format2f(v) ==
    LET unit == IF v.scale > 2 THEN Pow10(v.scale - 2) ELSE 1
        q    == IF v.scale > 2 THEN v.digits \div unit
                ELSE v.digits * Pow10(2 - v.scale)
        r    == IF v.scale > 2 THEN v.digits % unit ELSE 0
        h    == IF 2 * r > unit \/ (2 * r = unit /\ q % 2 = 1) THEN q + 1 ELSE q
    IN  (IF v.neg THEN <<"-">> ELSE <<>>)
        \o NatText(h \div 100)
        \o <<".", DigitChar((h \div 10) % 10), DigitChar(h % 10)>>

----------------------------------------------------------------------------
(* Files *)

\* what open(file, 'r') and f.readlines() meet
File(status, data) == [status |-> status, data |-> data]

Missing    == File("missing", <<>>)      \* FileNotFoundError
Unreadable == File("ioerror", <<>>)      \* any other OSError (permissions, a directory)
Garbled    == File("undecodable", <<>>)  \* UnicodeDecodeError out of readlines
Text(data) == File("ok", data)

\* diagnostics printed by read_latest_temperature
PrintedNothing  == "(nothing)"
PrintedInvalid  == "Invalid temperature value"
PrintedNoValid  == "No valid lines found in the file."
PrintedNotFound == "File not found."
PrintedFileErr  == "File error"
PrintedUnexpect == "Unexpected error"

Result(value, printed) == [value |-> value, printed |-> printed]

\* lines[-1] taken from the first line instead of the last
read_latest_first_line(f) ==
    IF f.status = "missing" THEN Result(None, PrintedNotFound)
    ELSE IF f.status = "ioerror" THEN Result(None, PrintedFileErr)
    ELSE IF f.status = "undecodable" THEN Result(None, PrintedUnexpect)
    ELSE LET lines == readlines(f.data)
         IN  IF lines # <<>>
             THEN LET latest_line == strip(lines[1])
                      parts       == split(latest_line, ";")
                  IN  IF Len(parts) = 3
                      THEN LET temperature == float(parts[3])
                           IN  IF ~temperature.isnone
                               THEN Result(temperature, PrintedNothing)
                               ELSE Result(None, PrintedInvalid)
                      ELSE Result(None, PrintedNoValid)
             ELSE Result(None, PrintedNoValid)

\* a parser that passes over blank lines at the end of the file
read_latest_skip_blank(f) ==
    IF f.status = "missing" THEN Result(None, PrintedNotFound)
    ELSE IF f.status = "ioerror" THEN Result(None, PrintedFileErr)
    ELSE IF f.status = "undecodable" THEN Result(None, PrintedUnexpect)
    ELSE LET lines == SelectSeq(readlines(f.data), LAMBDA l : strip(l) # <<>>)
         IN  IF lines # <<>>
             THEN LET latest_line == strip(lines[Len(lines)])
                      parts       == split(latest_line, ";")
                  IN  IF Len(parts) = 3
                      THEN LET temperature == float(parts[3])
                           IN  IF ~temperature.isnone
                               THEN Result(temperature, PrintedNothing)
                               ELSE Result(None, PrintedInvalid)
                      ELSE Result(None, PrintedNoValid)
             ELSE Result(None, PrintedNoValid)

read_latest_temperature(f) ==
    IF f.status = "missing" THEN Result(None, PrintedNotFound)
    ELSE IF f.status = "ioerror" THEN Result(None, PrintedFileErr)
    ELSE IF f.status = "undecodable" THEN Result(None, PrintedUnexpect)
    ELSE LET lines == readlines(f.data)
         IN  IF lines # <<>>
             THEN LET latest_line == strip(lines[Len(lines)])
                      parts       == split(latest_line, ";")
                  IN  IF Len(parts) = 3
                      THEN LET temperature == float(parts[3])
                           IN  IF ~temperature.isnone
                               THEN Result(temperature, PrintedNothing)
                               ELSE Result(None, PrintedInvalid)
                      ELSE Result(None, PrintedNoValid)
             ELSE Result(None, PrintedNoValid)

----------------------------------------------------------------------------
(* The parser on its own: every short file over a small alphabet *)

Alphabet == {"a", ";", " ", "\n", "1", ".", "-"}

\* the texts of exactly n characters
TextsOfLen(n) == [1..n -> Alphabet]

T_two_lines == <<"a", ";", "b", ";", "1", "0", ".", "0", "\n",
                 "a", ";", "b", ";", "2", "0", ".", "5", "\n">>
T_one_line  == <<"a", ";", "b", ";", "1", "2", ".", "3", "4">>
T_two_field == <<"a", ";", "b">>
T_not_num   == <<"a", ";", "b", ";", "x", "y", "z">>
T_blank_end == <<"a", ";", "b", ";", "1", ".", "5", "\n", " ", "\n">>
T_round     == <<"a", ";", "b", ";", "-", "0", ".", "0", "0", "4", "\n">>

SampleFiles ==
    {Missing, Unreadable, Garbled, Text(<<>>), Text(T_two_lines), Text(T_one_line),
     Text(T_two_field), Text(T_not_num), Text(T_blank_end), Text(T_round)}

NotCalled == Result(None, "(not called)")

----------------------------------------------------------------------------
(* The application *)

Paths == {"a.txt", "b.txt"}
NoPath == ""                        \* tk.StringVar() starts empty

\* what the two log files may turn into while the application runs
DiskFiles ==
    {Missing, Unreadable, Garbled, Text(<<>>), Text(T_two_lines), Text(T_one_line),
     Text(T_two_field), Text(T_not_num), Text(T_blank_end)}

FilesOf(p) ==
    IF p = "a.txt" THEN DiskFiles ELSE {Missing, Text(T_one_line), Text(T_two_field)}

Fallback == <<"-", "-">>            \* the label's "--"

MsgNoFile == "Please select a file first"
MsgFailed == "Failed to read temperature data."

Cancelled == 0                      \* askinteger returned None
FontInputs == {-1, 0, 1, 12}        \* what the user may type into the font size prompt

\* askinteger without its minvalue
askinteger_no_minvalue(pressed_ok, typed, minvalue) ==
    IF pressed_ok THEN typed ELSE Cancelled

\* askinteger(..., minvalue=1): the prompt refuses a number below minvalue and
\* stays open, so it hands back a number >= minvalue, or None once the user
\* gives up; None is written Cancelled, which no accepted number equals
askinteger(pressed_ok, typed, minvalue) ==
    IF pressed_ok /\ typed >= minvalue THEN typed ELSE Cancelled

TkColors == {"black"}               \* colour names the toolkit knows
\* askstring: "" stands for None and for empty text; "nocolor" is no colour name
ColorInputs == {"", "black", "nocolor"}
SystemDefault == "SystemButtonFace" \* the toolkit's colour of a widget never configured

\* one update_temperature invocation blocked in messagebox.showerror
Frame(origin, branch, msg, printed) ==
    [origin |-> origin, branch |-> branch, msg |-> msg, printed |-> printed]

Event(op, outcome) == [op |-> op, outcome |-> outcome]

\* an error box that repeats the parser's diagnostic
failure_notice_by_kind(r) == r.printed

\* the text of the error box for a failed read
failure_notice(r) == MsgFailed

\* schedule_update that arms nothing
schedule_nothing(n) == n

\* root.after(self.update_interval, self.update_temperature)
schedule_update(n) == n + 1

\* update_temperature with the label left alone when the read fails
update_temperature_keep_label(origin, path, timers) ==
    IF path = NoPath
    THEN /\ stack' = Append(stack, Frame(origin, "nofile", MsgNoFile, PrintedNothing))
         /\ pending' = timers
         /\ ev' = Event(origin, "nofile")
         /\ UNCHANGED <<label_text, label_src>>
    ELSE \E r \in {read_latest_temperature(fs[path])} :
             /\ label_src' = path
             /\ IF ~r.value.isnone
                THEN /\ label_text' = Format2f(r.value)
                     /\ pending' = schedule_update(timers)
                     /\ ev' = Event(origin, "ok")
                     /\ UNCHANGED stack
                ELSE /\ label_text' = label_text
                     /\ stack' = Append(stack,
                                        Frame(origin, "failed", failure_notice(r), r.printed))
                     /\ pending' = timers
                     /\ ev' = Event(origin, "failed")

\* update_temperature that keeps its place in the file and reads only what was
\* appended since the label was last written from this path
update_temperature_tailing(origin, path, timers) ==
    IF path = NoPath
    THEN /\ stack' = Append(stack, Frame(origin, "nofile", MsgNoFile, PrintedNothing))
         /\ pending' = timers
         /\ ev' = Event(origin, "nofile")
         /\ UNCHANGED <<label_text, label_src>>
    ELSE \E r \in {read_latest_temperature(IF label_src = path THEN Text(<<>>) ELSE fs[path])} :
             /\ label_src' = path
             /\ IF ~r.value.isnone
                THEN /\ label_text' = Format2f(r.value)
                     /\ pending' = schedule_update(timers)
                     /\ ev' = Event(origin, "ok")
                     /\ UNCHANGED stack
                ELSE /\ label_text' = Fallback
                     /\ stack' = Append(stack,
                                        Frame(origin, "failed", failure_notice(r), r.printed))
                     /\ pending' = timers
                     /\ ev' = Event(origin, "failed")

\* update_temperature up to its return or to the error box it blocks in.  origin is
\* the caller (the menu, select_file or a fired timer), path the value of file_path
\* at the call, timers the number of callbacks still scheduled at the call; r is
\* latest_temp together with the line the read printed.
update_temperature(origin, path, timers) ==
    IF path = NoPath
    THEN /\ stack' = Append(stack, Frame(origin, "nofile", MsgNoFile, PrintedNothing))
         /\ pending' = timers
         /\ ev' = Event(origin, "nofile")
         /\ UNCHANGED <<label_text, label_src>>
    ELSE \E r \in {read_latest_temperature(fs[path])} :
             /\ label_src' = path
             /\ IF ~r.value.isnone
                THEN /\ label_text' = Format2f(r.value)
                     /\ pending' = schedule_update(timers)
                     /\ ev' = Event(origin, "ok")
                     /\ UNCHANGED stack
                ELSE /\ label_text' = Fallback
                     /\ stack' = Append(stack,
                                        Frame(origin, "failed", failure_notice(r), r.printed))
                     /\ pending' = timers
                     /\ ev' = Event(origin, "failed")

\* a Dismiss that re-arms the timer whatever the branch
DismissRearm ==
    /\ stack # <<>>
    /\ LET top == stack[Len(stack)]
       IN  /\ stack' = SubSeq(stack, 1, Len(stack) - 1)
           /\ pending' = schedule_update(pending)
           /\ ev' = Event("dismiss", top.branch)
    /\ UNCHANGED <<file_path, label_text, font_size, bg_color, label_bg, root_bg, fs,
                   label_src, ticks, arg, ret>>

\* a Dismiss that returns without arming the timer
DismissForgets ==
    /\ stack # <<>>
    /\ LET top == stack[Len(stack)]
       IN  /\ stack' = SubSeq(stack, 1, Len(stack) - 1)
           /\ pending' = pending
           /\ ev' = Event("dismiss", top.branch)
    /\ UNCHANGED <<file_path, label_text, font_size, bg_color, label_bg, root_bg, fs,
                   label_src, ticks, arg, ret>>

\* the user closes the topmost error box: showerror returns and the blocked
\* update_temperature runs to its end
Dismiss ==
    /\ stack # <<>>
    /\ LET top == stack[Len(stack)]
       IN  /\ stack' = SubSeq(stack, 1, Len(stack) - 1)
           /\ pending' = IF top.branch = "failed" THEN schedule_update(pending) ELSE pending
           /\ ev' = Event("dismiss", top.branch)
    /\ UNCHANGED <<file_path, label_text, font_size, bg_color, label_bg, root_bg, fs,
                   label_src, ticks, arg, ret>>

\* select_file that stores the path and does not refresh
select_file_no_refresh(file_selected) ==
    /\ stack = <<>>
    /\ IF file_selected # NoPath
       THEN /\ pending < MaxTimers
            /\ file_path' = file_selected
            /\ ev' = Event("select_file", "ok")
            /\ UNCHANGED <<label_text, pending, stack, label_src>>
       ELSE /\ ev' = Event("select_file", "cancelled")
            /\ UNCHANGED <<file_path, label_text, pending, stack, label_src>>
    /\ UNCHANGED <<font_size, bg_color, label_bg, root_bg, fs, ticks, arg, ret>>

\* select_file without the test of what the dialog returned
select_file_stores_empty(file_selected) ==
    /\ stack = <<>>
    /\ pending < MaxTimers
    /\ file_path' = file_selected
    /\ update_temperature("select_file", file_selected, pending)
    /\ UNCHANGED <<font_size, bg_color, label_bg, root_bg, fs, ticks, arg, ret>>

\* menu "Select File": file_selected is the dialog's answer, "" when cancelled
select_file(file_selected) ==
    /\ stack = <<>>
    /\ IF file_selected # NoPath
       THEN /\ pending < MaxTimers
            /\ file_path' = file_selected
            /\ update_temperature("select_file", file_selected, pending)
       ELSE /\ ev' = Event("select_file", "cancelled")
            /\ UNCHANGED <<file_path, label_text, pending, stack, label_src>>
    /\ UNCHANGED <<font_size, bg_color, label_bg, root_bg, fs, ticks, arg, ret>>

\* menu "Update Temperature"
MenuUpdate ==
    /\ stack = <<>>
    /\ pending < MaxTimers
    /\ update_temperature("menu", file_path, pending)
    /\ UNCHANGED <<file_path, font_size, bg_color, label_bg, root_bg, fs, ticks, arg, ret>>

\* a scheduled callback comes due; the event loop also runs inside an open error box
TimerFire ==
    /\ pending > 0
    /\ Len(stack) < MaxDepth
    /\ update_temperature("timer", file_path, pending - 1)
    /\ ticks' = 1 - ticks
    /\ UNCHANGED <<file_path, font_size, bg_color, label_bg, root_bg, fs, arg, ret>>

\* menu "Change Font Size"
change_font_size(pressed_ok, typed) ==
    /\ stack = <<>>
    /\ \E new_size \in {askinteger(pressed_ok, typed, 1)} :
           /\ font_size' = IF new_size # Cancelled THEN new_size ELSE font_size
           /\ ev' = Event("change_font_size",
                          IF new_size # Cancelled THEN "ok"
                          ELSE IF pressed_ok THEN "refused" ELSE "cancelled")
    /\ UNCHANGED <<file_path, label_text, bg_color, label_bg, root_bg, pending, stack, fs,
                   label_src, ticks, arg, ret>>

\* change_bg_color that goes on to refresh the reading
change_bg_color_refresh(color) ==
    /\ stack = <<>>
    /\ pending < MaxTimers
    /\ IF color # ""
       THEN /\ bg_color' = color
            /\ IF color \in TkColors
               THEN /\ label_bg' = color
                    /\ root_bg' = color
               ELSE UNCHANGED <<label_bg, root_bg>>
       ELSE UNCHANGED <<bg_color, label_bg, root_bg>>
    /\ update_temperature("change_bg_color", file_path, pending)
    /\ UNCHANGED <<file_path, font_size, fs, ticks, arg, ret>>

\* menu "Change Background Color"
\* self.bg_color is assigned first; temperature_label.config(bg=...) raises
\* TclError for a name that is no colour, which ends the handler there
change_bg_color(color) ==
    /\ stack = <<>>
    /\ IF color # ""
       THEN /\ bg_color' = color
            /\ IF color \in TkColors
               THEN /\ label_bg' = color
                    /\ root_bg' = color
               ELSE UNCHANGED <<label_bg, root_bg>>
       ELSE UNCHANGED <<bg_color, label_bg, root_bg>>
    /\ ev' = Event("change_bg_color",
                   IF color = "" THEN "cancelled"
                   ELSE IF color \in TkColors THEN "ok" ELSE "tclerror")
    /\ UNCHANGED <<file_path, label_text, font_size, pending, stack, fs, label_src, ticks, arg, ret>>

\* another program rewrites, removes or locks a log file
FileChange(p, f) ==
    /\ fs[p] # f
    /\ fs' = [fs EXCEPT ![p] = f]
    /\ ev' = Event("file_change", "none")
    /\ UNCHANGED <<file_path, label_text, font_size, bg_color, label_bg, root_bg, pending,
                   stack, label_src, ticks, arg, ret>>

Init ==
    /\ file_path = NoPath
    /\ label_text = Fallback
    /\ font_size = 10
    /\ bg_color = "white"
    /\ label_bg = SystemDefault
    /\ root_bg = SystemDefault
    /\ pending = 0
    /\ stack = <<>>
    /\ fs \in [Paths -> {Text(T_one_line), Missing}]
    /\ label_src = NoPath
    /\ ev = Event("init", "none")
    /\ ticks = 0
    /\ arg = Missing
    /\ ret = NotCalled

\* what the event loop dispatches: menu commands, due timers, a closed error box
Dispatch ==
    \/ \E file_selected \in Paths \cup {NoPath} : select_file(file_selected)
    \/ MenuUpdate
    \/ TimerFire
    \/ Dismiss
    \/ \E pressed_ok \in BOOLEAN : \E typed \in FontInputs :
           change_font_size(pressed_ok, typed)
    \/ \E color \in ColorInputs : change_bg_color(color)

Next ==
    \/ Dispatch
    \/ \E p \in Paths : \E f \in FilesOf(p) : FileChange(p, f)

Spec == Init /\ [][Next]_vars

\* the files the liveness runs let the log files turn into
LiveFiles == {Missing, Text(T_one_line), Text(T_two_lines), Text(T_two_field)}

FairNext ==
    \/ Dispatch
    \/ \E p \in Paths : \E f \in FilesOf(p) \cap LiveFiles : FileChange(p, f)

\* TimerFire as the variable ticks shows it: only TimerFire changes ticks, and it
\* changes it every time, so a step is a TimerRuns step exactly when it is a
\* TimerFire step
TimerRuns ==
    /\ pending > 0
    /\ Len(stack) < MaxDepth
    /\ ticks' = 1 - ticks

\* timers that are due do fire
FairSpec == Init /\ [][FairNext]_vars /\ WF_ticks(TimerRuns)

----------------------------------------------------------------------------
(* The parser harness *)

ParseInit ==
    /\ file_path = NoPath
    /\ label_text = Fallback
    /\ font_size = 10
    /\ bg_color = "white"
    /\ label_bg = SystemDefault
    /\ root_bg = SystemDefault
    /\ pending = 0
    /\ stack = <<>>
    /\ fs = [p \in Paths |-> Missing]
    /\ label_src = NoPath
    /\ ev = Event("init", "none")
    /\ ticks = 0
    /\ \/ arg \in SampleFiles
       \/ \E n \in 0..MaxLen : \E t \in TextsOfLen(n) : arg = Text(t)
    /\ ret = NotCalled

\* a parser that puts what it read on the label itself
ParseCallShows ==
    /\ ret = NotCalled
    /\ ret' = read_latest_temperature(arg)
    /\ label_text' = IF ret'.value.isnone THEN Fallback ELSE Format2f(ret'.value)
    /\ UNCHANGED <<arg, file_path, font_size, bg_color, label_bg, root_bg, pending, stack,
                   fs, label_src, ev, ticks>>

ParseCall ==
    /\ ret = NotCalled
    /\ ret' = read_latest_temperature(arg)
    /\ UNCHANGED <<arg, gui_vars>>

ParseNext == ParseCall

ParseSpec == ParseInit /\ [][ParseNext]_vars

----------------------------------------------------------------------------
(* Vocabulary of the properties *)

RefreshOps == {"select_file", "menu", "timer"}

\* the step just taken was an update_temperature call that got past the path test
Refreshed == ev.op \in RefreshOps /\ ev.outcome \in {"ok", "failed"}

Top == stack[Len(stack)]

\* the last line of a non-empty text: what follows the last newline that is not
\* the final character
LastLineOf(d) ==
    LET nl == {i \in 1..(Len(d) - 1) : d[i] = "\n"}
    IN  SubSeq(d, IF nl = {} THEN 1 ELSE (CHOOSE i \in nl : \A j \in nl : j <= i) + 1, Len(d))

Separators(line) == Cardinality({i \in 1..Len(line) : line[i] = ";"})

\* the text reads as a decimal number: blanks around it, an optional sign, then
\* digits and at most one point, with at least one digit
IsNumberText(text) ==
    LET t == strip(text)
        b == IF t # <<>> /\ t[1] \in {"+", "-"} THEN Tail(t) ELSE t
    IN  /\ \A i \in 1..Len(b) : b[i] \in DigitChars \cup {"."}
        /\ Cardinality({i \in 1..Len(b) : b[i] = "."}) <= 1
        /\ \E i \in 1..Len(b) : b[i] \in DigitChars

\* the failure kind of a file, "none" for a file that holds a reading
FailureKind(f) ==
    IF f.status = "missing" THEN "NotFound"
    ELSE IF f.status # "ok" THEN "IoError"
    ELSE IF f.data = <<>> THEN "EmptyFile"
    ELSE LET line == strip(LastLineOf(f.data))
         IN  IF Separators(line) # 2 THEN "MalformedLine"
             ELSE IF ~IsNumberText(split(line, ";")[3]) THEN "InvalidNumber"
             ELSE "none"

\* the text is digits, a point and exactly two digits, with an optional sign
TwoDecimalText(t) ==
    LET b == IF t # <<>> /\ t[1] = "-" THEN Tail(t) ELSE t
    IN  /\ Len(b) >= 4
        /\ b[Len(b) - 2] = "."
        /\ \A i \in 1..Len(b) : i # Len(b) - 2 => b[i] \in DigitChars

\* the count of hundredths a two-decimal text shows, sign dropped
HundredthsOf(t) ==
    LET b == IF t # <<>> /\ t[1] = "-" THEN Tail(t) ELSE t
    IN  DigitsValue(SubSeq(b, 1, Len(b) - 3) \o SubSeq(b, Len(b) - 1, Len(b)))

Abs(n) == IF n < 0 THEN -n ELSE n

\* t shows v to within half a hundredth, with v's sign
ShowsRounded(t, v) ==
    /\ TwoDecimalText(t)
    /\ (t[1] = "-") = v.neg
    /\ 2 * Abs(HundredthsOf(t) * Pow10(v.scale) - 100 * v.digits) <= Pow10(v.scale)

----------------------------------------------------------------------------
(* Properties of the parser on its own (ParseSpec) *)

\* C1: for a file with at least one line the result is decided by the last line
\* alone: the file holding only that line gives the same result, and when the
\* stripped line has exactly 3 fields and the third is a number, that number is
\* the result.
C1_LastLineOnly ==
    (ret # NotCalled /\ arg.status = "ok" /\ arg.data # <<>>) =>
        LET last  == LastLineOf(arg.data)
            line  == strip(last)
            parts == split(line, ";")
        IN  /\ ret.value = read_latest_temperature(Text(last)).value
            /\ (Separators(line) = 2 /\ IsNumberText(parts[3])) =>
                   ret.value = float(parts[3])

C1_Witness ==
    /\ ret # NotCalled
    /\ arg = Text(T_two_lines)
    /\ ret.value = Normal(FALSE, 205, 1)

\* C2 as stated: failures of two different kinds never give the same result.
C2_KindsDistinct ==
    (ret # NotCalled /\ FailureKind(arg) # "none") =>
        \A g \in SampleFiles :
            FailureKind(g) \notin {"none", FailureKind(arg)} =>
                read_latest_temperature(g).value # ret.value

\* C2 amended: every failure kind gives the one result None (a number is
\* returned exactly for a file that holds a reading); the kinds differ only in
\* the diagnostic printed, which an empty file and a malformed line share.
C2_FailuresAreNone ==
    ret # NotCalled =>
        LET kind == FailureKind(arg)
        IN  /\ ret.value.isnone = (kind # "none")
            /\ kind # "none" => ret.value = None
            /\ kind \in {"EmptyFile", "MalformedLine"} => ret.printed = PrintedNoValid
            /\ kind = "InvalidNumber" => ret.printed = PrintedInvalid
            /\ kind = "NotFound" => ret.printed = PrintedNotFound

C2_Witness ==
    /\ ret # NotCalled
    /\ arg = Text(T_not_num)
    /\ FailureKind(arg) = "InvalidNumber"
    /\ ret.value = read_latest_temperature(Missing).value
    /\ ret.value = read_latest_temperature(Text(<<>>)).value

----------------------------------------------------------------------------
(* Properties of the refresh cycle (Spec) *)

\* C3: right after a refresh whose parse succeeded, the label shows the value of
\* the file's last line to exactly two decimal places.
C3_TwoDecimals ==
    (Refreshed /\ ev.outcome = "ok") =>
        LET f     == fs[file_path]
            parts == split(strip(LastLineOf(f.data)), ";")
        IN  /\ FailureKind(f) = "none"
            /\ ShowsRounded(label_text, float(parts[3]))

C3_Witness ==
    /\ Refreshed /\ ev.outcome = "ok"
    /\ fs[file_path] = Text(T_two_lines)
    /\ label_text = <<"2", "0", ".", "5", "0">>

\* C4: right after a refresh with a path set, a file of any failure kind has put
\* the fallback "--" on the label and an error box on the screen.
C4_FailureFallback ==
    (ev.op \in RefreshOps /\ ev.outcome # "cancelled" /\ file_path # NoPath
        /\ FailureKind(fs[file_path]) # "none") =>
        /\ ev.outcome = "failed"
        /\ label_text = Fallback
        /\ stack # <<>>
        /\ Top.branch = "failed"
        /\ Top.msg = MsgFailed

C4_Witness ==
    /\ ev = Event("timer", "failed")
    /\ fs[file_path] = Unreadable
    /\ label_text = Fallback
    /\ Top.msg = MsgFailed

\* the label of a refresh of file f
Shown(f) ==
    LET r == read_latest_temperature(f)
    IN  IF r.value.isnone THEN Fallback ELSE Format2f(r.value)

\* C5: whenever a path is selected the label was last written by a refresh that
\* read that path, and right after a selection it shows that file's reading.
C5_NoStaleDisplay ==
    /\ file_path # NoPath => label_src = file_path
    /\ (ev.op = "select_file" /\ ev.outcome # "cancelled") =>
           label_text = Shown(fs[file_path])

C5_Witness ==
    /\ ev = Event("select_file", "ok")
    /\ file_path = "b.txt"
    /\ pending = 2
    /\ label_src = "b.txt"
    /\ label_text = Shown(fs["b.txt"])
    /\ label_text # Shown(fs["a.txt"])

\* C6 as stated: closing the "no file selected" box leaves a tick scheduled
\* that was not scheduled before.
C6_AbortedRearms ==
    [][(stack # <<>> /\ Top.branch = "nofile" /\ Len(stack') < Len(stack)) =>
           pending' = pending + 1]_vars

\* C6 amended: an update_temperature call with no path set shows "Please select
\* a file first" and returns without scheduling anything.
C6_AbortedArmsNothing ==
    /\ []((ev.op \in RefreshOps /\ ev.outcome = "nofile") =>
              (stack # <<>> /\ Top.msg = MsgNoFile))
    /\ [][((ev'.op \in RefreshOps /\ ev'.outcome = "nofile") \/
           (stack # <<>> /\ Top.branch = "nofile" /\ Len(stack') < Len(stack))) =>
              pending' = pending]_vars

C6_Witness ==
    /\ ev = Event("dismiss", "nofile")
    /\ stack = <<>>
    /\ pending = 0

\* C7: an update_temperature call with a path set arms one timer, at once when
\* the parse succeeds and when the error box is closed when it fails (a fired
\* timer has used up the one that started the call).
C7_RearmBothBranches ==
    /\ [][(ev'.op \in {"select_file", "menu"} /\ ev'.outcome = "ok") =>
              pending' = pending + 1]_vars
    /\ [][(ev'.op = "timer" /\ ev'.outcome = "ok") => pending' = pending]_vars
    /\ [][(stack # <<>> /\ Top.branch = "failed" /\ Len(stack') < Len(stack)) =>
              pending' = pending + 1]_vars

C7_Witness ==
    /\ ev = Event("dismiss", "failed")
    /\ file_path # NoPath
    /\ pending = 1

\* C9 as stated: an update_temperature call begins only when no other call is
\* in progress, so the call just begun is the only one there is.
C9_NoOverlap ==
    (ev.op \in RefreshOps /\ ev.outcome # "cancelled") =>
        Len(stack) = IF ev.outcome = "ok" THEN 0 ELSE 1

\* C10 as stated: the error box of a failed refresh differs from the box any
\* failure with another diagnostic gets.
C10_NoticeTellsKind ==
    (stack # <<>> /\ Top.branch = "failed") =>
        \A g \in DiskFiles :
            LET r == read_latest_temperature(g)
            IN  (r.value.isnone /\ r.printed # Top.printed) => failure_notice(r) # Top.msg

\* C10 amended: every failed refresh shows the one text "Failed to read
\* temperature data.", whatever the failure kind.
C10_OneNotice ==
    \A i \in 1..Len(stack) :
        stack[i].branch = "failed" =>
            /\ stack[i].msg = MsgFailed
            /\ stack[i].printed \in {PrintedInvalid, PrintedNoValid, PrintedNotFound,
                                     PrintedFileErr, PrintedUnexpect}

C10_Witness ==
    /\ Len(stack) = 2
    /\ stack[1].printed = PrintedNotFound
    /\ stack[2].printed = PrintedInvalid
    /\ stack[1].msg = stack[2].msg

----------------------------------------------------------------------------
(* Liveness of the timer (FairSpec) *)

\* C8 as stated: once a file is selected, timer-driven refreshes keep coming.
C8_TimerForever ==
    <>(file_path # NoPath) => ([]<>(ticks = 0) /\ []<>(ticks = 1))

\* C8 amended: once a file is selected, timer-driven refreshes keep coming
\* unless an error box is left open for ever; a failed refresh arms its timer
\* only when its box is closed.
C8_TimerForeverUnlessBoxOpen ==
    <>(file_path # NoPath) =>
        (([]<>(ticks = 0) /\ []<>(ticks = 1)) \/ <>[](stack # <<>>))

C8_Witness ==
    /\ ev = Event("timer", "failed")
    /\ ticks = 1
    /\ file_path # NoPath
    /\ pending = 0
    /\ Len(stack) = 1

----------------------------------------------------------------------------
(* The style setters and the stored settings (Spec) *)

\* C11: the stored font size is a positive integer in every state; it starts
\* at 10, and a font size prompt that was cancelled, or that was given 0 or a
\* negative number, leaves the stored font size as it was.
C11_FontSizePositive ==
    /\ font_size = 10
    /\ [](font_size \in Nat \ {0})
    /\ [][(/\ ev'.op = "change_font_size"
           /\ ev'.outcome \in {"refused", "cancelled"}) => font_size' = font_size]_vars

C11_Witness ==
    /\ ev = Event("change_font_size", "refused")
    /\ font_size = 12

\* C12: read_latest_temperature has no side effects: a call, whatever the file
\* holds and whatever it returns, leaves the selected path, the label, the font
\* size, the background colours, the pending timers, the open error boxes and
\* the files themselves as they were.
C12_ParserHasNoSideEffects ==
    [][ret' # ret =>
          UNCHANGED <<file_path, label_text, label_src, font_size, bg_color, label_bg,
                      root_bg, pending, stack, fs, arg>>]_vars

C12_Witness ==
    /\ ret # NotCalled
    /\ ~ret.value.isnone
    /\ arg.status = "ok"
    /\ label_text = Fallback
    /\ file_path = NoPath
    /\ pending = 0

\* C13: change_font_size and change_bg_color, accepted or not, leave the
\* selected path, the label's text and the pending timers as they were, and
\* neither reads the file nor opens an error box.
C13_StyleSettersStandAlone ==
    [][ev'.op \in {"change_font_size", "change_bg_color"} =>
          UNCHANGED <<file_path, label_text, label_src, pending, stack, fs>>]_vars

C13_Witness ==
    /\ ev = Event("change_bg_color", "ok")
    /\ file_path # NoPath
    /\ label_text # Fallback
    /\ pending > 0
    /\ font_size = 12

----------------------------------------------------------------------------
(* Reading again, and the number of timers (Spec) *)

\* C14: reading the same path twice with the file unchanged in between gives
\* the same result both times: of two refreshes in a row from the same path,
\* the second succeeds exactly when the first did, shows the same text, and on
\* failure draws the same diagnostic from the parser.
C14_RereadAgrees ==
    [][(/\ Refreshed
        /\ Refreshed'
        /\ file_path' = file_path
        /\ fs' = fs)
       => /\ ev'.outcome = ev.outcome
          /\ label_text' = label_text
          /\ ev'.outcome = "failed" => stack'[Len(stack')].printed = Top.printed]_vars

C14_Witness ==
    /\ ev = Event("timer", "failed")
    /\ Len(stack) = 2
    /\ stack[1].branch = "failed"
    /\ stack[1].printed = stack[2].printed
    /\ stack[2].printed = PrintedInvalid

\* C15 as stated: at most one scheduled tick is pending in every state.
C15_SingleTimer == pending <= 1

\* C16: a file whose last line is blank once stripped fails as a malformed line
\* of one empty field, whatever the lines before it hold, and the refresh that
\* read it shows the fallback.
C16_BlankLastLineFails ==
    (/\ Refreshed
     /\ fs[file_path].status = "ok"
     /\ fs[file_path].data # <<>>
     /\ strip(LastLineOf(fs[file_path].data)) = <<>>)
    => /\ split(strip(LastLineOf(fs[file_path].data)), ";") = << <<>> >>
       /\ ev.outcome = "failed"
       /\ label_text = Fallback
       /\ Top.branch = "failed"
       /\ Top.printed = PrintedNoValid

C16_Witness ==
    /\ ev = Event("timer", "failed")
    /\ fs[file_path] = Text(T_blank_end)
    /\ ~read_latest_temperature(Text(SubSeq(T_blank_end, 1, 8))).value.isnone
    /\ label_text = Fallback

\* C17 as stated: in every state the stored background colour is the colour
\* the label and the window show.
C17_StoredIsDisplayed ==
    /\ bg_color = label_bg
    /\ bg_color = root_bg

----------------------------------------------------------------------------
(* The selected path (Spec) *)

\* C18: a path once selected is never cleared, and a file dialog that was
\* cancelled leaves the path, the label and the pending timers as they were and
\* starts no refresh.
C18_PathNeverCleared ==
    [][/\ file_path # NoPath => file_path' # NoPath
       /\ ev' = Event("select_file", "cancelled") =>
              UNCHANGED <<file_path, label_text, label_src, pending, stack>>]_vars

C18_Witness ==
    /\ ev = Event("select_file", "cancelled")
    /\ file_path # NoPath
    /\ label_text # Fallback
    /\ pending > 0

\* C19: while a tick is pending, or a failed refresh waits behind its error
\* box to arm one, a path is selected; the "Please select a file first" box
\* comes from the menu's refresh alone, before any selection, with the label
\* still at "--" and no tick pending.
C19_TimerHasPath ==
    /\ pending > 0 => file_path # NoPath
    /\ \A i \in 1..Len(stack) :
           /\ stack[i].branch = "failed" => file_path # NoPath
           /\ stack[i].branch = "nofile" =>
                  /\ stack[i].origin = "menu"
                  /\ file_path = NoPath
                  /\ label_text = Fallback
                  /\ label_src = NoPath
                  /\ pending = 0
    /\ ev.outcome = "nofile" => ev.op \in {"menu", "dismiss"}

C19_Witness ==
    /\ ev = Event("menu", "nofile")
    /\ Len(stack) = 1
    /\ Top.msg = MsgNoFile
    /\ label_text = Fallback

====
